---- MODULE Spec2Model ----
(***************************************************************************)
(* LocalTraceIdentifier (crates/evm/traces/src/identifier/local.rs):       *)
(* identification of contract addresses by comparing observed bytecode     *)
(* with the locally compiled artifacts.                                    *)
(*                                                                         *)
(* Encoding.  Byte strings are sequences of small naturals.  Option<T> is  *)
(* a sequence of length at most one: None is <<>>, Some(x) is <<x>>.  An    *)
(* ArtifactId is the artifact's position in the catalogue (the catalogue   *)
(* iterates in key order).  Indices into ordered_ids are 0-based, as in    *)
(* the source; ordered_ids[idx + 1] is the source's ordered_ids[idx].      *)
(* An f64 score is the exact fraction [num, den]; f64::MAX is [1, 0],      *)
(* which cross-multiplication orders above every finite score.  usize      *)
(* arithmetic is unbounded here: every length is far below 2^64 / 11.      *)
(***************************************************************************)
EXTENDS Naturals, Sequences, FiniteSets

VARIABLES known_contracts, ordered_ids, call

vars == <<known_contracts, ordered_ids, call>>

None == <<>>
Some(x) == <<x>>

\* The element of a singleton set.  The({e(x) : x \in {v}}) is e(v) with v
\* evaluated once, which is how the loops below thread their state.
The(S) == CHOOSE r \in S : TRUE

(***************************************************************************)
(* Bounds of the model.                                                    *)
(***************************************************************************)
\* Artifacts of a catalogue of SpecLen, and of a catalogue of Spec.
MaxArtifacts == 3
MaxMatchArtifacts == 2
\* Triples of one identify_addresses call.
MaxBatch == 2
\* Bytes of one ABI word (32 in the EVM).
AbiWordLen == 2

(***************************************************************************)
(* Byte strings used as bytecode: Mix(n, k) is n bytes, the first k equal  *)
(* to 1 and the others equal to 2.                                         *)
(***************************************************************************)
Mix(n, k) == [i \in 1..n |-> IF i <= k THEN 1 ELSE 2]

(***************************************************************************)
(* LocalTraceIdentifier::new                                               *)
(***************************************************************************)
RECURSIVE filter_map_len(_, _)
filter_map_len(kc, i) ==
    IF i > Len(kc) THEN <<>>
    ELSE IF kc[i].deployed_bytecode = None
         THEN filter_map_len(kc, i + 1)
         ELSE <<<<i, Len(kc[i].deployed_bytecode[1])>>>> \o filter_map_len(kc, i + 1)

\* Insert e after the last element whose key is <= e's key (stable).
RECURSIVE insert_by_key(_, _)
insert_by_key(s, e) ==
    IF s = <<>> THEN <<e>>
    ELSE IF s[Len(s)][2] <= e[2]
         THEN Append(s, e)
         ELSE The({Append(insert_by_key(init, e), s[Len(s)]) :
                       init \in {SubSeq(s, 1, Len(s) - 1)}})

RECURSIVE sort_by_key(_)
sort_by_key(s) ==
    IF s = <<>> THEN <<>>
    ELSE The({insert_by_key(sorted, s[Len(s)]) :
                  sorted \in {sort_by_key(SubSeq(s, 1, Len(s) - 1))}})

\* new without line 26 (the sort).
new_unsorted(kc) == filter_map_len(kc, 1)

\* new keeping only the artifacts that also have creation bytecode.
new_with_creation_code(kc) ==
    sort_by_key(SelectSeq(filter_map_len(kc, 1), LAMBDA e : kc[e[1]].bytecode # None))

new(kc) == sort_by_key(filter_map_len(kc, 1))

(***************************************************************************)
(* slice::binary_search_by_key on the index: Ok(idx) of some element whose *)
(* key is len (which one is unspecified when several match), or Err(idx)   *)
(* of the insertion point.  pick selects among the matching positions.     *)
(***************************************************************************)
binary_search_matches(ids, len) == {i \in 0..(Len(ids) - 1) : ids[i + 1][2] = len}

binary_search_results(ids, len) ==
    IF binary_search_matches(ids, len) # {}
    THEN binary_search_matches(ids, len)
    ELSE {Cardinality({i \in 1..Len(ids) : ids[i][2] < len})}

binary_search_by_key(ids, len, pick) ==
    LET res == binary_search_results(ids, len)
        k == pick % Cardinality(res)
    IN CHOOSE i \in res : Cardinality({j \in res : j < i}) = k

(***************************************************************************)
(* LocalTraceIdentifier::find_index                                        *)
(***************************************************************************)
RECURSIVE find_first(_, _, _)
find_first(ids, len, idx) ==
    IF idx > 0 /\ ids[idx][2] = len
    THEN find_first(ids, len, idx - 1)
    ELSE idx

\* find_index without lines 135-137 (the backward scan).
find_index_no_scan(ids, len, pick) == binary_search_by_key(ids, len, pick)

find_index(ids, len, pick) == find_first(ids, len, binary_search_by_key(ids, len, pick))

(***************************************************************************)
(* foundry_common::contracts::bytecode_diff_score: the normalised distance *)
(* of two byte strings, in [0, 1]; 0 on byte-identical strings.  The       *)
(* bytes beyond the shorter string all count as different.                 *)
(***************************************************************************)
bytecode_diff_score(a, b) ==
    LET long == IF Len(a) < Len(b) THEN b ELSE a
        short == IF Len(a) < Len(b) THEN a ELSE b
        n_different_bytes ==
            (Len(long) - Len(short))
            + Cardinality({i \in 1..Len(short) : long[i] # short[i]})
    IN [num |-> n_different_bytes, den |-> Len(long)]

F64_MAX == [num |-> 1, den |-> 0]

\* 0.85
Threshold == [num |-> 85, den |-> 100]

ScoreLt(s, t) == s.num * t.den < t.num * s.den
ScoreGe(s, t) == s.num * t.den >= t.num * s.den
ScoreIsZero(s) == s.num = 0

(***************************************************************************)
(* Function::abi_decode_input(args, false) for a constructor taking        *)
(* `constructor` static words: Ok exactly when args is that many words.    *)
(***************************************************************************)
abi_decode_input_is_ok(constructor, args) == Len(args) = constructor * AbiWordLen

(***************************************************************************)
(* The check closure of identify_code.  cx holds what the closure          *)
(* captures (known_contracts, runtime_code, creation_code); st holds the   *)
(* mutable state it shares with identify_code (min_score, min_score_id),   *)
(* the value it returned last (found), and the record of its calls to the  *)
(* scorer (log).                                                           *)
(***************************************************************************)
get(kc, id) == IF id \in DOMAIN kc THEN Some(kc[id]) ELSE None

\* Stripping without lines 60 and 62 (the constructor and the decoding).
strip_always(contract, bytecode, current_bytecode) ==
    IF Len(current_bytecode) > Len(bytecode)
    THEN SubSeq(current_bytecode, 1, Len(bytecode))
    ELSE current_bytecode

\* Lines 57-68: the observed creation code, without its constructor arguments
\* when they decode with the candidate's ABI.
strip_constructor_args(contract, bytecode, current_bytecode) ==
    IF Len(current_bytecode) > Len(bytecode)
    THEN IF contract.abi.constructor # None
         THEN LET constructor == contract.abi.constructor[1]
                  constructor_args ==
                      SubSeq(current_bytecode, Len(bytecode) + 1, Len(current_bytecode))
              IN IF abi_decode_input_is_ok(constructor, constructor_args)
                 THEN SubSeq(current_bytecode, 1, Len(bytecode))
                 ELSE current_bytecode
         ELSE current_bytecode
    ELSE current_bytecode

check(cx, st, id, is_creation, phase) ==
    IF get(cx.known_contracts, id) = None THEN [st EXCEPT !.found = None]
    ELSE
    LET contract == get(cx.known_contracts, id)[1]
        contract_bytecode ==
            IF is_creation THEN contract.bytecode ELSE contract.deployed_bytecode
        observed == IF is_creation THEN cx.creation_code ELSE cx.runtime_code
    IN IF contract_bytecode = None THEN [st EXCEPT !.found = None]
       ELSE
       LET bytecode == contract_bytecode[1]
           current_bytecode ==
               IF is_creation
               THEN strip_constructor_args(contract, bytecode, observed)
               ELSE observed
           score == bytecode_diff_score(bytecode, current_bytecode)
           entry == [id |-> id, is_creation |-> is_creation, phase |-> phase,
                     expected |-> bytecode, actual |-> current_bytecode,
                     score |-> score]
           logged == Append(st.log, entry)
       IN IF ScoreIsZero(score)
          THEN [st EXCEPT !.found = Some([id |-> id, abi |-> contract.abi]),
                          !.log = logged]
          ELSE IF ScoreLt(score, st.min_score)
               THEN [st EXCEPT !.min_score = score,
                               !.min_score_id = Some([id |-> id, abi |-> contract.abi]),
                               !.found = None,
                               !.log = logged]
               ELSE [st EXCEPT !.found = None, !.log = logged]

(***************************************************************************)
(* LocalTraceIdentifier::identify_code                                     *)
(***************************************************************************)
\* Line 84 rounding up, and line 84 with a 20% window.
max_len_ceil(len) == (len * 11 + 9) \div 10

max_len_wide(len) == (len * 12) \div 10

max_len_of(len) == (len * 11) \div 10

min_len_of(len) == (len * 9) \div 10

\* Lines 88-96: idx is the next 0-based index of the loop.
RECURSIVE forward_pass(_, _, _, _, _)
forward_pass(cx, ids, st, idx, max_len) ==
    IF idx >= Len(ids) THEN st
    ELSE IF ids[idx + 1][2] > max_len THEN st
    ELSE The({IF st1.found # None THEN st1
              ELSE forward_pass(cx, ids, st1, idx + 1, max_len) :
                  st1 \in {check(cx, st, ids[idx + 1][1], TRUE, "forward")}})

\* Lines 101-106.
RECURSIVE backward_pass(_, _, _, _, _)
backward_pass(cx, ids, st, i, same_length_idx) ==
    IF i >= same_length_idx THEN st
    ELSE The({IF st1.found # None THEN st1
              ELSE backward_pass(cx, ids, st1, i + 1, same_length_idx) :
                  st1 \in {check(cx, st, ids[i + 1][1], TRUE, "backward")}})

\* Lines 110-114.
RECURSIVE fallback_pass(_, _, _, _)
fallback_pass(cx, ids, st, i) ==
    IF i >= Len(ids) THEN st
    ELSE The({IF st1.found # None THEN st1
              ELSE fallback_pass(cx, ids, st1, i + 1) :
                  st1 \in {check(cx, st, ids[i + 1][1], FALSE, "fallback")}})

\* Line 109 with the fallback unconditional, and with no fallback.
fallback_always(min_score) == TRUE

fallback_never(min_score) == FALSE

\* Line 109.
needs_fallback(min_score) == ScoreGe(min_score, Threshold)

\* Line 121 without the threshold.
accept_always(min_score) == TRUE

\* Line 121.
accept(min_score) == ScoreLt(min_score, Threshold)

\* Lines 108-125: st is the closure's state after the two windowed passes.
decide(cx, ids, st) ==
    The({The({[ret |-> IF st3.found # None THEN st3.found
                       ELSE IF accept(st3.min_score) THEN st3.min_score_id
                       ELSE None,
               exact |-> st3.found # None,
               fallback |-> fallback,
               min_score |-> st3.min_score,
               log |-> st3.log] :
                  st3 \in {IF fallback THEN fallback_pass(cx, ids, st, 0) ELSE st}}) :
             fallback \in {st.found = None /\ needs_fallback(st.min_score)}})

identify_code(kc, ids, runtime_code, creation_code, pick) ==
    LET cx == [known_contracts |-> kc, runtime_code |-> runtime_code,
               creation_code |-> creation_code]
        len == Len(runtime_code)
        st0 == [min_score |-> F64_MAX, min_score_id |-> None, found |-> None,
                log |-> <<>>]
        max_len == max_len_of(len)
        min_len == min_len_of(len)
    IN The({The({The({decide(cx, ids, st2) :
                          st2 \in {IF st1.found # None THEN st1
                                   ELSE backward_pass(cx, ids, st1,
                                                      find_index(ids, min_len, pick),
                                                      same_length_idx)}}) :
                     st1 \in {forward_pass(cx, ids, st0, same_length_idx, max_len)}}) :
                same_length_idx \in {find_index(ids, len, pick)}})

(***************************************************************************)
(* TraceIdentifier::identify_addresses for LocalTraceIdentifier.  A triple *)
(* is <<address, runtime_code, creation_code>>, the codes Options.         *)
(***************************************************************************)
AddressIdentity(address, found) ==
    [address |-> address, contract |-> Some(found.id), label |-> Some(found.id),
     abi |-> Some(found.abi), artifact_id |-> Some(found.id)]

\* identify_addresses with a missing code read as empty code (line 155
\* without its first two `?`).
RECURSIVE filter_map_lenient(_, _, _, _)
filter_map_lenient(kc, ids, addresses, pick) ==
    IF addresses = <<>> THEN <<>>
    ELSE LET t == Head(addresses)
             rest == filter_map_lenient(kc, ids, Tail(addresses), pick)
             code(o) == IF o = None THEN <<>> ELSE o[1]
         IN The({IF found = None THEN rest
                 ELSE <<AddressIdentity(t[1], found[1])>> \o rest :
                     found \in {identify_code(kc, ids, code(t[2]), code(t[3]), pick).ret}})

RECURSIVE identify_addresses(_, _, _, _)
identify_addresses(kc, ids, addresses, pick) ==
    IF addresses = <<>> THEN <<>>
    ELSE LET t == Head(addresses)
             rest == identify_addresses(kc, ids, Tail(addresses), pick)
         IN IF t[2] = None \/ t[3] = None THEN rest
            ELSE The({IF found = None THEN rest
                      ELSE <<AddressIdentity(t[1], found[1])>> \o rest :
                          found \in {identify_code(kc, ids, t[2][1], t[3][1], pick).ret}})

(***************************************************************************)
(* Catalogues and inputs.                                                  *)
(***************************************************************************)
Artifact(bc, dbc, ctor) ==
    [bytecode |-> bc, deployed_bytecode |-> dbc, abi |-> [constructor |-> ctor]]

RECURSIVE SeqsUpTo(_, _)
SeqsUpTo(S, n) ==
    IF n = 0 THEN {<<>>}
    ELSE LET shorter == SeqsUpTo(S, n - 1)
         IN shorter \cup {Append(s, x) : s \in {t \in shorter : Len(t) = n - 1}, x \in S}

\* Creation code: CrNear is one byte off CrA, CrB differs in every byte;
\* CrWithArgs is CrA followed by one ABI word, CrWithJunk by a longer tail.
CrA == Mix(4, 4)
CrB == Mix(4, 0)
CrNear == Mix(4, 3)
CrWithArgs == CrA \o Mix(AbiWordLen, 0)
CrWithJunk == CrA \o Mix(AbiWordLen + 1, 0)

\* Deployed and runtime code: RtNear is one byte off RtA, RtB differs in
\* every byte, RtShort and RtLong are shorter and longer.
RtA == Mix(10, 10)
RtB == Mix(10, 0)
RtNear == Mix(10, 9)
RtShort == Mix(9, 9)
RtLong == Mix(12, 12)

\* Catalogues whose artifacts differ in the length of their deployed bytecode.
DeployedLens == {9, 10, 11, 12}

LenArtifacts ==
    {Artifact(Some(CrA), None, None)}
    \cup {Artifact(Some(CrB), Some(Mix(n, n)), None) : n \in DeployedLens}

\* Catalogues whose artifacts differ in what is stored and in its content.
MatchArtifacts ==
    { Artifact(Some(CrA), Some(RtA), None),
      Artifact(None, Some(RtA), None),
      Artifact(Some(CrA), Some(RtNear), Some(1)),
      Artifact(Some(CrB), Some(RtA), None),
      Artifact(Some(CrA), Some(RtLong), None),
      Artifact(Some(CrB), Some(RtB), Some(1)),
      Artifact(Some(CrA), None, None) }

\* Which of several matching positions the binary search lands on.
Picks == 0..(MaxArtifacts - 1)

FindLens == {0} \cup {n - 1 : n \in DeployedLens} \cup {n + 1 : n \in DeployedLens}

RuntimeCodes == {RtA, RtNear, RtShort, RtB, RtLong}

CreationCodes == {CrA, CrNear, CrB, CrWithArgs, CrWithJunk}

\* <<address, runtime_code, creation_code>>
Triples ==
    { <<1, Some(RtA), Some(CrA)>>,
      <<2, Some(RtNear), Some(CrB)>>,
      <<2, Some(RtA), None>>,
      <<1, None, Some(CrA)>> }

Idle == [op |-> "none"]

InitLen ==
    /\ known_contracts \in SeqsUpTo(LenArtifacts, MaxArtifacts)
    /\ ordered_ids = new(known_contracts)
    /\ call = Idle

Init ==
    /\ known_contracts \in SeqsUpTo(MatchArtifacts, MaxMatchArtifacts)
    /\ ordered_ids = new(known_contracts)
    /\ call = Idle

FindIndex ==
    /\ call.op = "none"
    /\ \E len \in FindLens, pick \in Picks :
         call' = [op |-> "find_index", len |-> len,
                  landed |-> binary_search_by_key(ordered_ids, len, pick),
                  out |-> find_index(ordered_ids, len, pick)]
    /\ UNCHANGED <<known_contracts, ordered_ids>>

IdentifyCode ==
    /\ call.op = "none"
    /\ \E runtime_code \in RuntimeCodes, creation_code \in CreationCodes, pick \in Picks :
         call' = [op |-> "identify_code", runtime_code |-> runtime_code,
                  creation_code |-> creation_code,
                  out |-> identify_code(known_contracts, ordered_ids,
                                        runtime_code, creation_code, pick)]
    /\ UNCHANGED <<known_contracts, ordered_ids>>

IdentifyAddresses ==
    /\ call.op = "none"
    /\ \E addresses \in SeqsUpTo(Triples, MaxBatch), pick \in Picks :
         call' = [op |-> "identify_addresses", addresses |-> addresses,
                  out |-> identify_addresses(known_contracts, ordered_ids,
                                             addresses, pick)]
    /\ UNCHANGED <<known_contracts, ordered_ids>>

\* The caller takes the result; the identifier is ready for the next call.
Return ==
    /\ call.op # "none"
    /\ call' = Idle
    /\ UNCHANGED <<known_contracts, ordered_ids>>

Next == FindIndex \/ IdentifyCode \/ IdentifyAddresses \/ Return

SpecLen == InitLen /\ [][Next]_vars

Spec == Init /\ [][Next]_vars

(***************************************************************************)
(* The Artifact Index.                                                     *)
(***************************************************************************)
IsSortedByLen(ids) == \A i, j \in 1..Len(ids) : i < j => ids[i][2] <= ids[j][2]

HasDeployed(kc) == {id \in DOMAIN kc : kc[id].deployed_bytecode # None}

\* One entry (id, length of the deployed bytecode) for each artifact that has
\* deployed bytecode, and no other entry.
IndexesCatalogue(ids, kc) ==
    /\ Len(ids) = Cardinality(HasDeployed(kc))
    /\ \A id \in HasDeployed(kc) :
         \E i \in 1..Len(ids) : ids[i] = <<id, Len(kc[id].deployed_bytecode[1])>>

\* C8: in every state reached by constructing the identifier and calling
\* find_index, identify_code and identify_addresses in any order, the index is
\* sorted ascending by length and holds exactly one entry (id, length of the
\* deployed bytecode) per catalogue artifact with deployed bytecode and none for
\* the others; and no step changes the index or the catalogue.
C8_IndexInvariant ==
    /\ [](IsSortedByLen(ordered_ids) /\ IndexesCatalogue(ordered_ids, known_contracts))
    /\ [][ordered_ids' = ordered_ids /\ known_contracts' = known_contracts]_vars

\* An unsorted catalogue with an artifact that has no deployed bytecode, after
\* a lookup.
C8_Witness ==
    /\ call.op = "identify_code"
    /\ Len(known_contracts) = 3
    /\ known_contracts[1].deployed_bytecode # None
    /\ known_contracts[2].deployed_bytecode = None
    /\ known_contracts[3].deployed_bytecode # None
    /\ Len(known_contracts[1].deployed_bytecode[1])
         > Len(known_contracts[3].deployed_bytecode[1])
    /\ ordered_ids[1][1] = 3
    /\ ordered_ids[2][1] = 1

(***************************************************************************)
(* find_index.                                                             *)
(***************************************************************************)
\* The smallest 0-based index whose entry is at least len long; the size of
\* the index when there is none.
LowerBound(ids, len) ==
    IF \E i \in 1..Len(ids) : ids[i][2] >= len
    THEN (CHOOSE i \in 1..Len(ids) :
              /\ ids[i][2] >= len
              /\ \A j \in 1..(i - 1) : ids[j][2] < len) - 1
    ELSE Len(ids)

\* C5: find_index(L) is the smallest index whose entry is at least L long, the
\* index size when every entry is shorter; whichever of several entries of
\* length L the binary search lands on, the leftmost of them is returned.
C5_FindIndexLowerBound ==
    call.op = "find_index" => call.out = LowerBound(ordered_ids, call.len)

\* Three entries of the length searched for, the binary search landing on the
\* last of them.
C5_Witness ==
    /\ call.op = "find_index"
    /\ Len(ordered_ids) = 3
    /\ \A i \in 1..3 : ordered_ids[i][2] = call.len
    /\ call.landed = 2
    /\ call.out = 0

(***************************************************************************)
(* The windowed passes of identify_code.                                   *)
(***************************************************************************)
IsCall(op) == call.op = op

DeployedLen(id) == Len(known_contracts[id].deployed_bytecode[1])

Log == call.out.log

Entries(phase) == {k \in 1..Len(Log) : Log[k].phase = phase}

CreationEntries == {k \in 1..Len(Log) : Log[k].is_creation}

DeployedEntries == {k \in 1..Len(Log) : ~Log[k].is_creation}

Indexed == {ordered_ids[i][1] : i \in 1..Len(ordered_ids)}

\* floor(n / 10) and ceil(n / 10), by their defining inequalities.
FloorTenth(n) == CHOOSE m \in 0..n : 10 * m <= n /\ n < 10 * (m + 1)

CeilTenth(n) == CHOOSE m \in 0..n : 10 * (m - 1) < n /\ n <= 10 * m

\* C6: with L the runtime length, min_len = L*9/10 and max_len = L*11/10, the
\* forward pass compares creation code only against entries of deployed length
\* in [L, max_len], the backward pass only against entries of deployed length
\* in [min_len, L), no entry is compared twice by the two passes, and an entry
\* of length outside [min_len, max_len] is never compared on creation code: the
\* fallback compares deployed code only.
C6_WindowCorrectness ==
    IsCall("identify_code") =>
        LET L == Len(call.runtime_code)
            min_len == (L * 9) \div 10
            max_len == (L * 11) \div 10
        IN /\ \A k \in Entries("forward") :
                /\ Log[k].is_creation
                /\ L <= DeployedLen(Log[k].id)
                /\ DeployedLen(Log[k].id) <= max_len
           /\ \A k \in Entries("backward") :
                /\ Log[k].is_creation
                /\ min_len <= DeployedLen(Log[k].id)
                /\ DeployedLen(Log[k].id) < L
           /\ \A k \in Entries("fallback") : ~Log[k].is_creation
           /\ \A k, m \in CreationEntries : Log[k].id = Log[m].id => k = m
           /\ \A k \in CreationEntries :
                /\ min_len <= DeployedLen(Log[k].id)
                /\ DeployedLen(Log[k].id) <= max_len

\* L = 10 with entries of length 9, 11 and 12: the forward pass compares the
\* entry of length 11, the backward pass the entry of length 9, and the entry
\* of length 12 is compared by the fallback alone.
C6_Witness ==
    /\ IsCall("identify_code")
    /\ Len(call.runtime_code) = 10
    /\ \E k \in Entries("forward") : DeployedLen(Log[k].id) = 11
    /\ \E k \in Entries("backward") : DeployedLen(Log[k].id) = 9
    /\ \E k \in Entries("fallback") : DeployedLen(Log[k].id) = 12
    /\ \A k \in CreationEntries : DeployedLen(Log[k].id) # 12

NoExactCreationMatch == \A k \in CreationEntries : ~ScoreIsZero(Log[k].score)

HasCreationCode(id) == known_contracts[id].bytecode # None

\* C10 as stated: the window is [floor(0.9 L), ceil(1.1 L)], so an entry of
\* deployed length ceil(1.1 L) with stored creation bytecode is compared by
\* the forward pass when no candidate exact-matched.
C10_Original ==
    (IsCall("identify_code") /\ NoExactCreationMatch) =>
        LET L == Len(call.runtime_code)
        IN \A id \in Indexed :
             (HasCreationCode(id) /\ DeployedLen(id) = CeilTenth(11 * L)) =>
                 \E k \in Entries("forward") : Log[k].id = id

\* C10, amended: the window is [floor(0.9 L), floor(1.1 L)].  When no
\* creation-code comparison is exact, the forward pass compares every entry
\* with stored creation bytecode and deployed length in [L, floor(1.1 L)], the
\* backward pass every such entry of length in [floor(0.9 L), L), and no entry
\* of length below floor(0.9 L) or above floor(1.1 L) is compared by either.
C10_WindowBounds ==
    IsCall("identify_code") =>
        LET L == Len(call.runtime_code)
            lo == FloorTenth(9 * L)
            hi == FloorTenth(11 * L)
        IN /\ \A k \in CreationEntries :
                lo <= DeployedLen(Log[k].id) /\ DeployedLen(Log[k].id) <= hi
           /\ NoExactCreationMatch =>
                \A id \in Indexed :
                    /\ (HasCreationCode(id) /\ L <= DeployedLen(id) /\ DeployedLen(id) <= hi)
                         => \E k \in Entries("forward") : Log[k].id = id
                    /\ (HasCreationCode(id) /\ lo <= DeployedLen(id) /\ DeployedLen(id) < L)
                         => \E k \in Entries("backward") : Log[k].id = id

\* L = 9: floor(9.9) = 9 and ceil(9.9) = 10.  The entry of length 9 is
\* compared by the forward pass and the entry of length 10 is not compared.
C10_Witness ==
    /\ IsCall("identify_code")
    /\ Len(call.runtime_code) = 9
    /\ NoExactCreationMatch
    /\ \E id \in Indexed : HasCreationCode(id) /\ DeployedLen(id) = 10
    /\ \E k \in Entries("forward") : DeployedLen(Log[k].id) = 9
    /\ \A k \in CreationEntries : DeployedLen(Log[k].id) # 10

(***************************************************************************)
(* The comparisons of identify_code.                                       *)
(***************************************************************************)
Ret == call.out.ret

\* C7: a creation-code comparison with a candidate whose stored creation
\* bytecode has n bytes passes the scorer the first n bytes of creation_code
\* when creation_code is longer than n, the candidate's ABI has a constructor
\* and creation_code[n..] decodes as its arguments, and the whole creation_code
\* in every other case; a deployed-code comparison passes the whole
\* runtime_code.
C7_ConstructorStripping ==
    IsCall("identify_code") =>
        \A k \in 1..Len(Log) :
            LET contract == known_contracts[Log[k].id]
                cr == call.creation_code
            IN IF Log[k].is_creation
               THEN LET n == Len(contract.bytecode[1])
                        decodes ==
                            /\ Len(cr) > n
                            /\ contract.abi.constructor # None
                            /\ abi_decode_input_is_ok(contract.abi.constructor[1],
                                                      SubSeq(cr, n + 1, Len(cr)))
                    IN /\ Log[k].expected = contract.bytecode[1]
                       /\ decodes => Log[k].actual = SubSeq(cr, 1, n)
                       /\ ~decodes => Log[k].actual = cr
               ELSE /\ Log[k].expected = contract.deployed_bytecode[1]
                    /\ Log[k].actual = call.runtime_code

\* One call that compares the stripped code with a candidate that has a
\* constructor, and the whole code with a candidate that has none.
C7_Witness ==
    /\ IsCall("identify_code")
    /\ call.creation_code = CrWithArgs
    /\ \E k \in CreationEntries :
         /\ known_contracts[Log[k].id].abi.constructor # None
         /\ Log[k].actual = CrA
         /\ ScoreIsZero(Log[k].score)
    /\ \E k \in CreationEntries :
         /\ known_contracts[Log[k].id].abi.constructor = None
         /\ Log[k].actual = CrWithArgs

AtLeastThreshold(S) == \A k \in S : ScoreGe(Log[k].score, Threshold)

\* C9: the fallback runs exactly when no creation-code comparison of the two
\* passes was exact and none scored below 0.85.  The creation-code comparisons
\* all precede the deployed-code ones; an exact creation-code comparison is the
\* last comparison of the call and its artifact is returned.  The fallback
\* compares runtime_code with the deployed bytecode of the index entries in
\* index order, from the first, and stops only after an exact comparison or
\* at the end of the index.
C9_PhaseOrdering ==
    IsCall("identify_code") =>
        LET nc == Cardinality(CreationEntries)
            nd == Cardinality(DeployedEntries)
        IN /\ CreationEntries = 1..nc
           /\ call.out.fallback <=> (NoExactCreationMatch /\ AtLeastThreshold(CreationEntries))
           /\ ~call.out.fallback => nd = 0
           /\ \A k \in CreationEntries :
                ScoreIsZero(Log[k].score) =>
                    k = Len(Log) /\ Ret # None /\ Ret[1].id = Log[k].id
           /\ \A j \in 1..nd :
                /\ Log[nc + j].phase = "fallback"
                /\ Log[nc + j].id = ordered_ids[j][1]
                /\ Log[nc + j].expected = known_contracts[ordered_ids[j][1]].deployed_bytecode[1]
                /\ Log[nc + j].actual = call.runtime_code
                /\ j < nd => ~ScoreIsZero(Log[nc + j].score)
           /\ call.out.fallback =>
                \/ nd = Len(ordered_ids)
                \/ nd > 0 /\ ScoreIsZero(Log[nc + nd].score)

\* The passes compare one candidate without an exact match, then the fallback
\* compares both index entries, the second of them outside the length window.
C9_Witness ==
    /\ IsCall("identify_code")
    /\ Len(call.runtime_code) = 10
    /\ Len(ordered_ids) = 2
    /\ ordered_ids[2][2] = 12
    /\ Cardinality(CreationEntries) = 1
    /\ call.out.fallback
    /\ Cardinality(DeployedEntries) = 2
    /\ ~call.out.exact

\* C2: identify_code returns None when the least score of its comparisons is
\* at least 0.85, and when it made no comparison; an artifact it returns was
\* compared in the call with a score below 0.85 that no other comparison of
\* the call undercuts.
C2_Threshold ==
    IsCall("identify_code") =>
        /\ AtLeastThreshold(1..Len(Log)) => Ret = None
        /\ Ret # None =>
             \E k \in 1..Len(Log) :
                 /\ Log[k].id = Ret[1].id
                 /\ Ret[1].abi = known_contracts[Log[k].id].abi
                 /\ ScoreLt(Log[k].score, Threshold)
                 /\ \A m \in 1..Len(Log) : ~ScoreLt(Log[m].score, Log[k].score)

\* Two comparisons, neither exact; the second scores lower and its artifact is
\* returned.
C2_Witness ==
    /\ IsCall("identify_code")
    /\ Len(Log) = 2
    /\ ~ScoreIsZero(Log[2].score)
    /\ ScoreLt(Log[2].score, Log[1].score)
    /\ Ret # None
    /\ Ret[1].id = Log[2].id

\* The index entries whose deployed bytecode the scorer finds identical to the
\* runtime code of the call.
ExactDeployed ==
    {i \in 1..Len(ordered_ids) :
        ScoreIsZero(bytecode_diff_score(
            known_contracts[ordered_ids[i][1]].deployed_bytecode[1], call.runtime_code))}

IdenticalDeployed ==
    {i \in 1..Len(ordered_ids) :
        known_contracts[ordered_ids[i][1]].deployed_bytecode[1] = call.runtime_code}

\* C1 as stated: when an indexed artifact's deployed bytecode is identical to
\* runtime_code and no creation-code comparison is exact, identify_code returns
\* an artifact with that deployed bytecode, also when a creation-code
\* comparison scored below 0.85.
C1_Original ==
    (IsCall("identify_code") /\ IdenticalDeployed # {} /\ NoExactCreationMatch) =>
        /\ Ret # None
        /\ \E i \in IdenticalDeployed : Ret[1].id = ordered_ids[i][1]

\* C1, amended: when an indexed artifact's deployed bytecode is identical to
\* runtime_code and every creation-code comparison of the two passes scores at
\* least 0.85, the fallback runs and returns the first index entry whose
\* deployed bytecode scores 0.0 against runtime_code.
C1_ExactMatchPriority ==
    (IsCall("identify_code") /\ IdenticalDeployed # {}
        /\ AtLeastThreshold(CreationEntries)) =>
        /\ call.out.fallback
        /\ ExactDeployed # {}
        /\ Ret # None
        /\ \E i \in ExactDeployed :
             /\ \A j \in ExactDeployed : i <= j
             /\ Ret[1].id = ordered_ids[i][1]
             /\ Ret[1].abi = known_contracts[ordered_ids[i][1]].abi

\* A creation-code comparison scores 1.0, and the fallback returns the second
\* index entry, whose deployed bytecode is the runtime code.
C1_Witness ==
    /\ IsCall("identify_code")
    /\ CreationEntries # {}
    /\ AtLeastThreshold(CreationEntries)
    /\ IdenticalDeployed = {2}
    /\ call.out.fallback
    /\ Ret # None
    /\ Ret[1].id = ordered_ids[2][1]

\* The artifacts with deployed bytecode and no creation bytecode.
CreationLess ==
    {id \in DOMAIN known_contracts :
        /\ known_contracts[id].deployed_bytecode # None
        /\ known_contracts[id].bytecode = None}

\* C3 as stated: an artifact with deployed bytecode and no creation bytecode
\* is not indexed, and with a catalogue of such artifacts alone identify_code
\* returns None.
C3_Original ==
    (IsCall("identify_code") /\ CreationLess # {}
        /\ CreationLess = DOMAIN known_contracts) =>
        /\ CreationLess \cap Indexed = {}
        /\ Ret = None

\* C3, amended: an artifact with deployed bytecode and no creation bytecode is
\* indexed like every artifact with deployed bytecode, and is never compared on
\* creation code.  With a catalogue of such artifacts alone the fallback
\* always runs, and identify_code returns None exactly when every deployed-code
\* comparison scores at least 0.85; when runtime_code is the deployed bytecode
\* of one of them, it returns an artifact with that deployed bytecode.
C3_CreationLessArtifact ==
    /\ CreationLess \subseteq Indexed
    /\ IsCall("identify_code") =>
         /\ \A k \in CreationEntries : Log[k].id \notin CreationLess
         /\ (CreationLess # {} /\ CreationLess = DOMAIN known_contracts) =>
              /\ call.out.fallback
              /\ DeployedEntries # {}
              /\ Ret = None <=> AtLeastThreshold(DeployedEntries)
              /\ IdenticalDeployed # {} =>
                   /\ Ret # None
                   /\ known_contracts[Ret[1].id].deployed_bytecode[1] = call.runtime_code

\* A catalogue of one such artifact, and a lookup of its deployed bytecode that
\* returns it.
C3_Witness ==
    /\ IsCall("identify_code")
    /\ Len(known_contracts) = 1
    /\ CreationLess = {1}
    /\ call.runtime_code = known_contracts[1].deployed_bytecode[1]
    /\ Ret # None
    /\ Ret[1].id = 1

(***************************************************************************)
(* identify_addresses.                                                     *)
(***************************************************************************)
\* What identify_code returns for the codes of a triple; None when a code is
\* missing.
Resolution(t) ==
    IF t[2] = None \/ t[3] = None THEN None
    ELSE identify_code(known_contracts, ordered_ids, t[2][1], t[3][1], 0).ret

\* C4: identify_addresses returns one record for each input triple that has
\* both codes and that identify_code resolves, and no other record; the
\* records are in the order of their triples, and each carries its triple's
\* address and the artifact and ABI identify_code returns for its codes.
C4_IdentifyAddresses ==
    IsCall("identify_addresses") =>
        LET input == call.addresses
            resolved == {i \in 1..Len(input) : Resolution(input[i]) # None}
            nth(k) == CHOOSE i \in resolved : Cardinality({j \in resolved : j < i}) = k - 1
        IN /\ Len(call.out) = Cardinality(resolved)
           /\ \A k \in 1..Len(call.out) :
                LET found == Resolution(input[nth(k)])[1]
                IN /\ call.out[k].address = input[nth(k)][1]
                   /\ call.out[k].artifact_id = Some(found.id)
                   /\ call.out[k].contract = Some(found.id)
                   /\ call.out[k].label = Some(found.id)
                   /\ call.out[k].abi = Some(found.abi)

\* A triple without creation code, skipped, and after it a triple that is
\* resolved.
C4_Witness ==
    /\ IsCall("identify_addresses")
    /\ Len(call.addresses) = 2
    /\ call.addresses[1][3] = None
    /\ call.addresses[1][1] # call.addresses[2][1]
    /\ Len(call.out) = 1
    /\ call.out[1].address = call.addresses[2][1]

====
